---- MODULE Spec2Model ----
(***************************************************************************)
(* SolarPaneler: the edit-placement variant of SolarPanelMonitor           *)
(* (src/app.js, the class starting at line 713).                           *)
(*                                                                         *)
(* Lengths (x, y, width, height, pointer coordinates) are JavaScript       *)
(* numbers.  resolveOverlaps halves them, so the model keeps every length  *)
(* as an integer count of 1/Scale pixels; Px(n) is n pixels.  Angles are   *)
(* plain integers (degrees).                                               *)
(*                                                                         *)
(* An optional field of a raw record is <<>> when the record does not      *)
(* carry it (JavaScript undefined) and <<v>> when it carries the value v.  *)
(*                                                                         *)
(* Power values (the fields of a device, this.maxPower) are JavaScript     *)
(* numbers kept as integer counts of thousandths: Watts(400) is 400 W and  *)
(* the kilowatt value 2.5 is 2500.                                         *)
(*                                                                         *)
(* Every action is one task of the event loop: a handler from the event    *)
(* or the answer that starts it to the point where it returns or awaits.   *)
(* Four specifications share the actions and differ in their inputs:       *)
(* Spec (layout load and placement editing), SpecNormalize (the layout     *)
(* load over every small payload), SpecPower (startup and refreshes over   *)
(* every small power payload) and SpecApp (every listener, timer and load  *)
(* over few inputs).                                                       *)
(***************************************************************************)
EXTENDS Integers, Sequences, FiniteSets, TLC

VARIABLES
    localLayout,          \* CONFIG.localLayout: [type, records]
    phase,                \* "layout" until loadPanelLayout has returned, then "loaded"
    panels,               \* this.panels
    maxPower,             \* this.maxPower, in thousandths of a watt
    isDragging,           \* this.isDragging
    dragPanel,            \* this.dragPanel: 0 (null) or the index of the panel in panels
    dragOffset,           \* this.dragOffset
    editPlacementEnabled, \* this.editPlacementEnabled
    panelsArray,          \* loadPanelLayout: the raw records handed to the normalizer
    normalized,           \* loadPanelLayout: this.panels when the map over the records ends
    resolved,             \* resolveOverlaps: its local variables moved, iterations at return
    lastEvent,            \* the handler that ran last, with its input
    dragMoves,            \* the number of pointer-moves that have moved a panel
    powerData,            \* this.powerData: the readings by serial
    inFlight,             \* the calls of loadPowerData that await their fetch, by origin
    refreshInterval,      \* this.refreshInterval: 0 (null) or the handle of a timer
    refreshIntervalMinutes, \* this.refreshIntervalMinutes
    timers,               \* the interval timers that are set
    initDone,             \* init() has returned
    fetched,              \* whether a layout fetch, a power fetch has been issued
    powerCycle,           \* the load cycle that completed last: its origin and response
    canvas,               \* the width and height render gave the canvas
    rendered,             \* the power label and the fill render drew for each panel
    exported              \* the array exportPanelLayout serialized last

vars == <<localLayout, phase, panels, maxPower, isDragging, dragPanel, dragOffset,
          editPlacementEnabled, panelsArray, normalized, resolved, lastEvent, dragMoves,
          powerData, inFlight, refreshInterval, refreshIntervalMinutes, timers,
          initDone, fetched, powerCycle, canvas, rendered, exported>>

----------------------------------------------------------------------------
(* Numbers *)

ScaleBits == 16
Scale == 2 ^ ScaleBits
Px(n) == n * Scale

Max(a, b) == IF a >= b THEN a ELSE b
Min(a, b) == IF a <= b THEN a ELSE b
Abs(a) == IF a < 0 THEN -a ELSE a

\* JavaScript a % n: the sign of the result is the sign of a
JsRem(a, n) == IF a >= 0 THEN a % n ELSE -((-a) % n)

\* x / 2 on lengths; exact while x is even in 1/Scale pixels
Half(x) == IF x >= 0 THEN x \div 2 ELSE -((-x) \div 2)

undefined == <<>>
Num(v) == <<v>>
\* JavaScript truthiness of an optional number: undefined and 0 are falsy
Truthy(f) == f # undefined /\ f[1] # 0
\* a || b || c on optional numbers, c a plain number
Or3(a, b, c) == IF Truthy(a) THEN a[1] ELSE IF Truthy(b) THEN b[1] ELSE c
\* a || c
Or2(a, c) == IF Truthy(a) THEN a[1] ELSE c

----------------------------------------------------------------------------
(* Raw records and the Panel Normalizer (loadPanelLayout) *)

\* a raw record that carries no field at all
EmptyRecord ==
    [xCoordinate |-> undefined, yCoordinate |-> undefined, x |-> undefined,
     y |-> undefined, planeRotation |-> undefined, width |-> undefined,
     height |-> undefined, inverterSerialNumber |-> undefined, id |-> undefined,
     serialNumber |-> undefined]

\* `panel-${index}`
PanelName(index) == "panel-" \o ToString(index)

\* a || b on optional strings, the result optional again
OrOpt(a, b) == IF a # undefined THEN a ELSE b

\* p.yCoordinate || p.y || 0
RawY(p) == Or3(p.yCoordinate, p.y, 0)

RECURSIVE SeqMin(_)
\* Math.min(...s) of a non-empty sequence of numbers
SeqMin(s) == IF Len(s) = 1 THEN s[1] ELSE Min(s[1], SeqMin(Tail(s)))

\* minY < 0 ? Math.abs(minY) + 50 : 50; Math.min() of no argument is Infinity
NoOffsetForNegatives(arr) == Px(50)
YOffset(arr) ==
    IF arr = <<>> THEN Px(50)
    ELSE LET allYCoords == [i \in 1..Len(arr) |-> RawY(arr[i])]
             minY == SeqMin(allYCoords)
         IN  IF minY < 0 THEN Abs(minY) + Px(50) ELSE Px(50)

\* x of the record at the 0-based index
NormalX(panel, index) ==
    Or3(panel.xCoordinate, panel.x, Px((index % 10) * 120 + 50))

\* y of the record at the 0-based index
NormalY(panel, index, yOffset) ==
    Or3(panel.yCoordinate, panel.y, Px((index \div 10) * 120 + 50)) + yOffset

\* (panel.planeRotation || 0) % 360
NormalRotation(panel) == JsRem(Or2(panel.planeRotation, 0), 360)

BaseWidth(panel) == Or2(panel.width, Px(80))
BaseHeight(panel) == Or2(panel.height, Px(120))

\* <<width, height>> for a rotation
NoSwapAt270(rotation, baseWidth, baseHeight) ==
    IF rotation = 0 \/ rotation = 180 \/ rotation = 270 THEN <<baseWidth, baseHeight>>
    ELSE IF rotation = 90 THEN <<baseHeight, baseWidth>>
    ELSE <<Max(baseWidth, baseHeight), Max(baseWidth, baseHeight)>>
EffectiveSize(rotation, baseWidth, baseHeight) ==
    IF rotation = 0 \/ rotation = 180 THEN <<baseWidth, baseHeight>>
    ELSE IF rotation = 90 \/ rotation = 270 THEN <<baseHeight, baseWidth>>
    ELSE <<Max(baseWidth, baseHeight), Max(baseWidth, baseHeight)>>

\* the callback of panelsArray.map, index 0-based
NormalizeApiPanel(panel, index, yOffset) ==
    LET rotation == NormalRotation(panel)
        size == EffectiveSize(rotation, BaseWidth(panel), BaseHeight(panel))
    IN  [x |-> NormalX(panel, index),
         y |-> NormalY(panel, index, yOffset),
         width |-> size[1],
         height |-> size[2],
         id |-> OrOpt(panel.inverterSerialNumber, OrOpt(panel.id, Num(PanelName(index))))[1],
         serialNumber |-> OrOpt(panel.inverterSerialNumber, panel.serialNumber),
         inverterSerialNumber |-> panel.inverterSerialNumber,
         planeRotation |-> rotation]

NormalizeApi(arr) ==
    [i \in 1..Len(arr) |-> NormalizeApiPanel(arr[i], i - 1, YOffset(arr))]

\* the callback of CONFIG.localLayout.map, index 0-based
NormalizeLocalPanel(panel, index) ==
    [id |-> OrOpt(panel.id, OrOpt(panel.inverterSerialNumber, Num(PanelName(index))))[1],
     serialNumber |-> OrOpt(panel.serialNumber, panel.inverterSerialNumber),
     inverterSerialNumber |-> panel.inverterSerialNumber,
     x |-> Or2(panel.x, 0),
     y |-> Or2(panel.y, 0),
     width |-> Or2(panel.width, Px(80)),
     height |-> Or2(panel.height, Px(120)),
     planeRotation |-> Or2(panel.planeRotation, 0)]

NormalizeLocal(arr) ==
    [i \in 1..Len(arr) |-> NormalizeLocalPanel(arr[i], i - 1)]

\* the records a decoded response exposes; an unrecognized shape exposes none
ExtractPanels(data) ==
    IF data.shape = "result.panels" THEN data.records
    ELSE IF data.shape = "array" THEN data.records
    ELSE IF data.shape = "panels" THEN data.records
    ELSE IF data.shape = "Panels" THEN data.records
    ELSE <<>>

\* createDefaultPanels
DefaultColumns == 4
DefaultCount == 12
DefaultPanel(i) ==
    LET baseWidth == Px(80)
        baseHeight == Px(120)
        spacingX == Px(20)
        spacingY == Px(20)
        col == i % DefaultColumns
        row == i \div DefaultColumns
        rotation == IF i % 2 = 0 THEN 0 ELSE 90
        width == IF rotation = 0 \/ rotation = 180 THEN baseWidth ELSE baseHeight
        height == IF rotation = 0 \/ rotation = 180 THEN baseHeight ELSE baseWidth
    IN  [id |-> PanelName(i),
         serialNumber |-> Num("SN-" \o ToString(i)),
         inverterSerialNumber |-> undefined,
         x |-> Px(50) + col * (Max(width, baseHeight) + spacingX),
         y |-> Px(50) + row * (Max(height, baseHeight) + spacingY),
         width |-> width,
         height |-> height,
         planeRotation |-> rotation]

TightDefaultPanels == [k \in 1..DefaultCount |->
    [DefaultPanel(k - 1) EXCEPT !.x = Px(50) + ((k - 1) % DefaultColumns) * Px(100)]]
createDefaultPanels == [k \in 1..DefaultCount |-> DefaultPanel(k - 1)]

----------------------------------------------------------------------------
(* The Overlap Resolver *)

panelsOverlap(panel1, panel2) ==
    ~(\/ panel1.x + panel1.width <= panel2.x
      \/ panel2.x + panel2.width <= panel1.x
      \/ panel1.y + panel1.height <= panel2.y
      \/ panel2.y + panel2.height <= panel1.y)

maxIterations == 100
ResolvePadding == Px(10)

\* the body of the if at app.js:935 for the overlapping pair i < j
SeparatePair(ps, i, j) ==
    LET panel1 == ps[i]
        panel2 == ps[j]
        overlapX == Min(panel1.x + panel1.width - panel2.x,
                        panel2.x + panel2.width - panel1.x)
        overlapY == Min(panel1.y + panel1.height - panel2.y,
                        panel2.y + panel2.height - panel1.y)
    IN  IF overlapX < overlapY
        THEN LET moveAmount == Half(overlapX + ResolvePadding)
             IN  IF panel1.x < panel2.x
                 THEN [ps EXCEPT ![i].x = Max(0, panel1.x - moveAmount),
                                 ![j].x = panel2.x + moveAmount]
                 ELSE [ps EXCEPT ![j].x = Max(0, panel2.x - moveAmount),
                                 ![i].x = panel1.x + moveAmount]
        ELSE LET moveAmount == Half(overlapY + ResolvePadding)
             IN  IF panel1.y < panel2.y
                 THEN [ps EXCEPT ![i].y = Max(0, panel1.y - moveAmount),
                                 ![j].y = panel2.y + moveAmount]
                 ELSE [ps EXCEPT ![j].y = Max(0, panel2.y - moveAmount),
                                 ![i].y = panel1.y + moveAmount]

\* the first j the inner loop pairs with i
SkipNeighbour(i) == i + 2
FirstPartner(i) == i + 1

RECURSIVE ResolvePass(_, _, _, _)
\* one pass of the two for loops, from the pair (i, j) on
ResolvePass(ps, i, j, moved) ==
    IF i > Len(ps) THEN [panels |-> ps, moved |-> moved]
    ELSE IF j > Len(ps) THEN ResolvePass(ps, i + 1, FirstPartner(i + 1), moved)
    ELSE IF panelsOverlap(ps[i], ps[j])
         THEN ResolvePass(SeparatePair(ps, i, j), i, j + 1, TRUE)
         ELSE ResolvePass(ps, i, j + 1, moved)

RECURSIVE ResolveLoop(_, _, _)
\* the while loop; the result carries the locals moved and iterations at its exit
ResolveOnce(ps, moved, iterations) ==
    IF moved /\ iterations < 1
    THEN LET pass == ResolvePass(ps, 1, FirstPartner(1), FALSE)
         IN  ResolveLoop(pass.panels, pass.moved, iterations + 1)
    ELSE [panels |-> ps, moved |-> moved, iterations |-> iterations]
ResolveLoop(ps, moved, iterations) ==
    IF moved /\ iterations < maxIterations
    THEN LET pass == ResolvePass(ps, 1, FirstPartner(1), FALSE)
         IN  ResolveLoop(pass.panels, pass.moved, iterations + 1)
    ELSE [panels |-> ps, moved |-> moved, iterations |-> iterations]

resolveOverlaps(ps) == ResolveLoop(ps, TRUE, 0)

----------------------------------------------------------------------------
(* Hit-testing and the Drag Placement Engine *)

\* 1000 * |cos| and 1000 * |sin| of an angle in degrees, for the multiples of 45
AbsCos(deg) == CASE Abs(deg) % 180 = 0 -> 1000
                 [] Abs(deg) % 180 = 90 -> 0
                 [] OTHER -> 707
AbsSin(deg) == CASE Abs(deg) % 180 = 0 -> 0
                 [] Abs(deg) % 180 = 90 -> 1000
                 [] OTHER -> 707

\* (len * milli) / 1000 on a length, computed without leaving 32 bits
Milli(len, milli) == (len \div 1000) * milli + ((len % 1000) * milli) \div 1000

\* <<width, height>> of the box the coordinate-based finds of handleMouseDown and
\* updateTooltip test the pointer against
HitBox(p) ==
    IF p.planeRotation # 0 /\ p.planeRotation # 180
       /\ p.planeRotation # 90 /\ p.planeRotation # 270
    THEN <<Milli(p.width, AbsCos(p.planeRotation))
             + Milli(p.height, AbsSin(p.planeRotation)),
           Milli(p.width, AbsSin(p.planeRotation))
             + Milli(p.height, AbsCos(p.planeRotation))>>
    ELSE <<p.width, p.height>>

\* the predicate of the coordinate-based find in handleMouseDown
HitTest(p, x, y) ==
    /\ x >= p.x /\ x <= p.x + HitBox(p)[1]
    /\ y >= p.y /\ y <= p.y + HitBox(p)[2]

\* Array.prototype.find as an index: the first index satisfying Test, 0 for none
FirstIndex(ps, Test(_)) ==
    IF \E k \in 1..Len(ps) : Test(ps[k])
    THEN CHOOSE k \in 1..Len(ps) : Test(ps[k]) /\ \A m \in 1..(k - 1) : ~Test(ps[m])
    ELSE 0

\* the panel found for the SVG element under the pointer: target is the index of
\* the panel whose element the browser reports, 0 when it reports none
FindByElement(ps, target) ==
    IF target = 0 THEN 0
    ELSE LET panelId == ps[target].id
             Matches(p) == \/ p.id = panelId
                           \/ p.serialNumber = Num(panelId)
                           \/ p.inverterSerialNumber = Num(panelId)
         IN  FirstIndex(ps, Matches)

\* the panel handleMouseDown grabs, 0 for none
HitPanel(ps, x, y, target) ==
    LET byElement == FindByElement(ps, target)
        Inside(p) == HitTest(p, x, y)
    IN  IF byElement # 0 THEN byElement ELSE FirstIndex(ps, Inside)

DragPadding == Px(5)

\* the body of the for loop of handleMouseMove for one panel: the candidate <<x, y>>
\* of the dragged panel d after the test against panel
PushOut(d, panel, x, y) ==
    LET overlapX == Min(x + d.width - panel.x, panel.x + panel.width - x)
        overlapY == Min(y + d.height - panel.y, panel.y + panel.height - y)
    IN  IF overlapX < overlapY
        THEN IF x < panel.x
             THEN <<panel.x - d.width - DragPadding, y>>
             ELSE <<panel.x + panel.width + DragPadding, y>>
        ELSE IF y < panel.y
             THEN <<x, panel.y - d.height - DragPadding>>
             ELSE <<x, panel.y + panel.height + DragPadding>>

RECURSIVE DragCandidate(_, _, _, _, _)
\* the for loop of handleMouseMove from the k-th panel on
DragCandidate(ps, drag, k, x, y) ==
    IF k > Len(ps) THEN <<x, y>>
    ELSE IF k # drag
            /\ panelsOverlap([x |-> x, y |-> y, width |-> ps[drag].width,
                              height |-> ps[drag].height], ps[k])
         THEN LET c == PushOut(ps[drag], ps[k], x, y)
              IN  DragCandidate(ps, drag, k + 1, c[1], c[2])
         ELSE DragCandidate(ps, drag, k + 1, x, y)

\* the panel set after a pointer-move at <<px, py>> while panel drag is dragged
DragToFront(ps, drag, offset, px, py) ==
    LET x0 == Max(0, px - offset.x)
        y0 == Max(0, py - offset.y)
        c == DragCandidate(ps, drag, 1, x0, y0)
        moved == [ps[drag] EXCEPT !.x = Max(0, c[1]), !.y = Max(0, c[2])]
    IN  <<moved>> \o SubSeq(ps, 1, drag - 1) \o SubSeq(ps, drag + 1, Len(ps))
DragAlong(ps, drag, offset, px, py) ==
    LET x0 == Max(0, px - offset.x)
        y0 == Max(0, py - offset.y)
        c == DragCandidate(ps, drag, 1, x0, y0)
    IN  [k \in 1..Len(ps) |->
            IF k = drag THEN [ps[k] EXCEPT !.x = Max(0, c[1]), !.y = Max(0, c[2])]
            ELSE [ps[k] EXCEPT !.x = @ + Max(0, c[1]) - ps[drag].x]]
DragTo(ps, drag, offset, px, py) ==
    LET x0 == Max(0, px - offset.x)
        y0 == Max(0, py - offset.y)
        c == DragCandidate(ps, drag, 1, x0, y0)
    IN  [ps EXCEPT ![drag].x = Max(0, c[1]), ![drag].y = Max(0, c[2])]

----------------------------------------------------------------------------
(* Power readings: loadPowerData, getPowerValue, getColorForPower *)

\* The value of a power field of a device: a JavaScript number is kept as an
\* integer count of thousandths (2.5 is 2500), a string as its text.
JsUndefined == [type |-> "undefined", n |-> 0, s |-> ""]
JsNull == [type |-> "null", n |-> 0, s |-> ""]
JsNaN == [type |-> "NaN", n |-> 0, s |-> ""]
JsNumber(thousandths) == [type |-> "number", n |-> thousandths, s |-> ""]
JsString(text) == [type |-> "string", n |-> 0, s |-> text]

\* n watts as a number
Watts(n) == n * 1000

\* JavaScript truthiness of a power field
JsTruthy(v) ==
    \/ v.type = "number" /\ v.n # 0
    \/ v.type = "string" /\ v.s # ""

\* parseFloat on the texts the payloads carry: the longest numeric prefix, NaN
\* when there is none
ParseText(text) ==
    CASE text = "2.5" -> JsNumber(2500)
      [] text = "0.25 kW" -> JsNumber(250)
      [] text = "-0.002" -> JsNumber(-2)
      [] text = "250" -> JsNumber(250000)
      [] OTHER -> JsNaN

\* parseFloat(v)
parseFloat(v) ==
    IF v.type = "number" THEN v
    ELSE IF v.type = "string" THEN ParseText(v.s)
    ELSE JsNaN

\* a device that carries no field at all; also the {} render falls back to
EmptyDevice ==
    [DEVICE_TYPE |-> undefined, TYPE |-> undefined, DESCR |-> undefined,
     SERIAL |-> undefined, serialNumber |-> undefined, SerialNumber |-> undefined,
     inverterSerialNumber |-> undefined, InverterSerialNumber |-> undefined,
     id |-> undefined, ID |-> undefined,
     p_3phsum_kw |-> JsUndefined, p_3phsum_kW |-> JsUndefined,
     power |-> JsUndefined, Power |-> JsUndefined,
     powerWatts |-> JsUndefined, PowerWatts |-> JsUndefined,
     currentPower |-> JsUndefined, CurrentPower |-> JsUndefined,
     instantPower |-> JsUndefined, InstantPower |-> JsUndefined]

\* v !== undefined && v !== null && v !== ''
Present(v) == v.type \notin {"undefined", "null"} /\ v # JsString("")

\* device.power || device.Power || ... || 0
FallbackValue(device) ==
    IF JsTruthy(device.power) THEN device.power
    ELSE IF JsTruthy(device.Power) THEN device.Power
    ELSE IF JsTruthy(device.powerWatts) THEN device.powerWatts
    ELSE IF JsTruthy(device.PowerWatts) THEN device.PowerWatts
    ELSE IF JsTruthy(device.currentPower) THEN device.currentPower
    ELSE IF JsTruthy(device.CurrentPower) THEN device.CurrentPower
    ELSE IF JsTruthy(device.instantPower) THEN device.instantPower
    ELSE IF JsTruthy(device.InstantPower) THEN device.InstantPower
    ELSE JsNumber(0)

\* getPowerValue(device) for a device object, in thousandths of a watt
getPowerValue(device) ==
    LET kw == parseFloat(device.p_3phsum_kw)
        kW == parseFloat(device.p_3phsum_kW)
        fallback == parseFloat(FallbackValue(device))
    IN  IF Present(device.p_3phsum_kw) /\ kw # JsNaN THEN kw.n * 1000
        ELSE IF Present(device.p_3phsum_kW) /\ kW # JsNaN THEN kW.n * 1000
        ELSE IF fallback = JsNaN THEN 0
        ELSE fallback.n

\* a color as its three channels; '#000000' is <<0, 0, 0>>
Black == [r |-> 0, g |-> 0, b |-> 0]

\* Math.floor(a / b) for b > 0
FloorDiv(a, b) == IF a >= 0 THEN a \div b ELSE -(((-a) + b - 1) \div b)

\* Math.floor(minGreen + greenRange * Math.min(power / max, 1)) for max > 0
DimGreen(power, max) ==
    IF power >= max THEN 255 - 30 ELSE FloorDiv((255 - 30) * power, max)
Green(power, max) ==
    IF power >= max THEN 255 ELSE 30 + FloorDiv((255 - 30) * power, max)

\* getColorForPower(power) while this.maxPower is max
getColorForPower(power, max) ==
    IF max = 0 THEN Black
    ELSE IF power = 0 THEN Black
    ELSE [r |-> 0, g |-> Green(power, max), b |-> 0]

\* this.powerData = {}
EmptyTable == [key \in {} |-> EmptyDevice]

\* a decoded power response: the device list under the name shape, or an object
\* without a device list ("other"), or the JSON value null ("null")
PowerResponse(shape, devices) == [status |-> "ok", shape |-> shape, devices |-> devices]
\* the fetch rejects ("error"), the status is not OK ("http"), or the body is not
\* JSON ("malformed")
PowerFailure(status) == [status |-> status, shape |-> "other", devices |-> <<>>]

\* Array.isArray(data) ? data : (data.devices || data.DeviceList || data.Devices || [])
ExtractDevices(data) ==
    IF data.shape \in {"array", "devices", "DeviceList", "Devices"} THEN data.devices
    ELSE <<>>

\* device.DESCR.includes("Inverter") on the descriptions the payloads carry
IncludesInverter(descr) == descr \in {"Inverter", "Inverter 2 of 12"}

\* the predicate of devices.filter
IsInverter(device) ==
    \/ device.DEVICE_TYPE = Num("Inverter")
    \/ device.TYPE = Num("SOLARBRIDGE")
    \/ (device.DESCR # undefined /\ IncludesInverter(device.DESCR[1]))

RECURSIVE Inverters(_)
\* devices.filter(...)
Inverters(devices) ==
    IF devices = <<>> THEN <<>>
    ELSE IF IsInverter(Head(devices)) THEN <<Head(devices)>> \o Inverters(Tail(devices))
    ELSE Inverters(Tail(devices))

\* device.SERIAL || device.serialNumber || ... || device.ID, optional
SerialOf(device) ==
    OrOpt(device.SERIAL, OrOpt(device.serialNumber, OrOpt(device.SerialNumber,
    OrOpt(device.inverterSerialNumber, OrOpt(device.InverterSerialNumber,
    OrOpt(device.id, device.ID))))))

\* serial.toLowerCase() on the serials the payloads carry
toLowerCase(serial) ==
    CASE serial = "A1" -> "a1"
      [] serial = "B2" -> "b2"
      [] OTHER -> serial

\* the body of inverters.forEach for one device, on <<this.powerData, this.maxPower>>
StoreReading(state, device) ==
    LET serial == SerialOf(device)
        power == getPowerValue(device)
    IN  IF serial = undefined THEN state
        ELSE [powerData |-> (toLowerCase(serial[1]) :> device)
                            @@ (serial[1] :> device) @@ state.powerData,
              maxPower |-> IF power > state.maxPower THEN power ELSE state.maxPower]

RECURSIVE StoreReadings(_, _)
\* inverters.forEach
StoreReadings(state, inverters) ==
    IF inverters = <<>> THEN state
    ELSE StoreReadings(StoreReading(state, Head(inverters)), Tail(inverters))

\* if (this.maxPower === 0) this.maxPower = 400, as it stands before each render
\* of loadPanelLayout and of loadPowerData
NoDefaultMaxPower(max) == max
DefaultMaxPower(max) == IF max = 0 THEN Watts(400) ELSE max

\* this.maxPower at the start of a load cycle: it is reset to 0 (app.js:998)
CarriedMaxPower(old) == old
ResetMaxPower(old) == 0

\* the try block of loadPowerData from app.js:996 to app.js:1042 on a decoded body
MergePowerData(data, oldMaxPower) ==
    LET start == [powerData |-> powerData, maxPower |-> ResetMaxPower(oldMaxPower)]
        stored == StoreReadings(start, Inverters(ExtractDevices(data)))
    IN  [powerData |-> stored.powerData,
         maxPower |-> DefaultMaxPower(stored.maxPower)]
ReadPowerData(data, oldMaxPower) ==
    LET start == [powerData |-> EmptyTable, maxPower |-> ResetMaxPower(oldMaxPower)]
        stored == StoreReadings(start, Inverters(ExtractDevices(data)))
    IN  [powerData |-> stored.powerData,
         maxPower |-> DefaultMaxPower(stored.maxPower)]

----------------------------------------------------------------------------
(* render *)

\* window.innerWidth and window.innerHeight: a small window, so that the panels
\* decide the size of the canvas
innerWidth == Px(200)
innerHeight == Px(300)

\* <<width, height>> of the bounding box render adds to the position of a panel
RenderBox(p) ==
    IF p.planeRotation # 0 /\ p.planeRotation # 180
    THEN <<Milli(p.width, AbsCos(p.planeRotation))
             + Milli(p.height, AbsSin(p.planeRotation)),
           Milli(p.width, AbsSin(p.planeRotation))
             + Milli(p.height, AbsCos(p.planeRotation))>>
    ELSE <<p.width, p.height>>

RECURSIVE MaxExtent(_, _)
\* maxX (axis 1) or maxY (axis 2) of render after the forEach over ps
MaxExtent(ps, axis) ==
    IF ps = <<>> THEN 0
    ELSE LET p == ps[Len(ps)]
             position == IF axis = 1 THEN p.x ELSE p.y
         IN  Max(MaxExtent(SubSeq(ps, 1, Len(ps) - 1), axis),
                 position + RenderBox(p)[axis])

\* the width and height render gives the canvas
CanvasSize(ps) ==
    IF Len(ps) = 0 THEN [width |-> innerWidth, height |-> innerHeight - Px(100)]
    ELSE [width |-> Max(MaxExtent(ps, 1) + Px(50), innerWidth),
          height |-> Max(MaxExtent(ps, 2) + Px(50), innerHeight - Px(100))]

\* this.powerData[key] for a key that may be undefined, optional
Reading(table, key) ==
    IF key # undefined /\ key[1] \in DOMAIN table THEN Num(table[key[1]]) ELSE undefined

\* this.powerData[panel.id] || this.powerData[panel.serialNumber] ||
\* this.powerData[panel.inverterSerialNumber] || {}
PowerInfo(table, p) ==
    IF Reading(table, Num(p.id)) # undefined THEN table[p.id]
    ELSE IF Reading(table, p.serialNumber) # undefined THEN table[p.serialNumber[1]]
    ELSE IF Reading(table, p.inverterSerialNumber) # undefined
         THEN table[p.inverterSerialNumber[1]]
    ELSE EmptyDevice

\* what render draws for each panel: the power of its label and the fill of its rect
Render(ps, table, max) ==
    [i \in 1..Len(ps) |->
        LET power == getPowerValue(PowerInfo(table, ps[i]))
        IN  [power |-> power, fill |-> getColorForPower(power, max)]]

----------------------------------------------------------------------------
(* exportPanelLayout *)

\* the array exportPanelLayout serializes; JSON.stringify drops the fields that
\* are undefined and keeps every number as it is
exportPanelLayout(ps) ==
    [i \in 1..Len(ps) |->
        [EmptyRecord EXCEPT !.id = Num(ps[i].id),
                            !.x = Num(ps[i].x),
                            !.y = Num(ps[i].y),
                            !.width = Num(ps[i].width),
                            !.height = Num(ps[i].height),
                            !.planeRotation = Num(ps[i].planeRotation),
                            !.inverterSerialNumber = ps[i].inverterSerialNumber,
                            !.serialNumber = ps[i].serialNumber]]

----------------------------------------------------------------------------
(* Inputs *)

\* the longest raw payload the normalizer specification enumerates
MaxRecords == 2
\* the number of position-changing pointer-moves a behaviour may hold
MaxDragMoves == 2

\* an API record with explicit coordinates (pixels) and a rotation
ApiRecord(x, y, rotation) ==
    [EmptyRecord EXCEPT !.xCoordinate = Num(Px(x)), !.yCoordinate = Num(Px(y)),
                        !.planeRotation = Num(rotation)]

\* a record of CONFIG.localLayout as exportPanelLayout writes it
LocalRecord(id, x, y, width, height, rotation) ==
    [EmptyRecord EXCEPT !.id = Num(id), !.x = Num(Px(x)), !.y = Num(Px(y)),
                        !.width = Num(Px(width)), !.height = Num(Px(height)),
                        !.planeRotation = Num(rotation)]

Response(shape, records) == [ok |-> TRUE, shape |-> shape, records |-> records]
\* a transport error, a non-OK status, or a body that makes the handler throw
FailedResponse == [ok |-> FALSE, shape |-> "other", records |-> <<>>]
\* no fetch is issued, so there is no response
NoResponse == [ok |-> FALSE, shape |-> "none", records |-> <<>>]
\* the layout responses of the application specification
LayoutResponses ==
    { FailedResponse,
      Response("other", <<>>),
      Response("array", <<>>),
      \* two panels side by side, apart
      Response("result.panels", <<ApiRecord(20, 10, 0), ApiRecord(150, 10, 0)>>),
      \* two overlapping panels and a third one
      Response("panels", <<ApiRecord(20, 10, 0), ApiRecord(60, 10, 180),
                           ApiRecord(20, 150, 90)>>),
      \* the scenario of the specification: negative coordinates
      Response("result.panels",
               <<[ApiRecord(-100, -50, 90) EXCEPT !.inverterSerialNumber = Num("A1")]>>),
      \* coordinates given as 0, and a panel at an angle
      Response("Panels", <<ApiRecord(0, 0, 0), ApiRecord(200, 0, 45)>>) }

LocalLayouts ==
    { <<>>,
      <<LocalRecord("panel-1", 50, 50, 80, 120, 0),
        LocalRecord("panel-2", 150, 50, 120, 80, 90)>>,
      <<LocalRecord("panel-1", -30, -20, 80, 120, 0),
        LocalRecord("panel-2", 20, 40, 80, 120, 0)>>,
      \* a hand-written layout with a rotation of more than a full turn
      <<LocalRecord("panel-1", 50, 50, 120, 80, 450)>> }

PointerXs == {Px(10), Px(60), Px(160)}
PointerYs == {Px(50), Px(100)}

\* CONFIG.localLayout when it is an array
ArrayConfig(records) == [type |-> "array", records |-> records]
\* CONFIG.localLayout when it is absent ("undefined"), null ("null") or a value
\* that is not an array ("object")
NotArrayConfig(type) == [type |-> type, records |-> <<>>]

NormalizerConfigs ==
    {ArrayConfig(layout) : layout \in LocalLayouts}
    \cup {NotArrayConfig(type) : type \in {"undefined", "null", "object"}}

\* the most devices a power payload of the readings specification carries
MaxDevices == 1
\* the most calls of loadPowerData by listeners and timers that await their fetch
MaxInFlight == 1

\* an inverter as the supervisor reports it
Inverter(serial, kw) ==
    [EmptyDevice EXCEPT !.DEVICE_TYPE = Num("Inverter"), !.SERIAL = Num(serial),
                        !.p_3phsum_kw = kw]

DeviceRecords ==
    { \* the scenario of the specification: 2.5 kW
      Inverter("A1", JsString("2.5")),
      Inverter("B2", JsNumber(250)),
      \* an inverter that draws power at night
      Inverter("B2", JsString("-0.002")),
      \* a reading in watts under a fallback name, the kW field empty
      [EmptyDevice EXCEPT !.TYPE = Num("SOLARBRIDGE"), !.serialNumber = Num("b2"),
                          !.p_3phsum_kw = JsString(""), !.power = JsString("250")],
      \* a device that is not an inverter
      [EmptyDevice EXCEPT !.DEVICE_TYPE = Num("Power Meter"), !.SERIAL = Num("M1"),
                          !.p_3phsum_kw = JsNumber(4000)],
      \* an inverter that carries no serial
      [EmptyDevice EXCEPT !.DESCR = Num("Inverter 2 of 12"),
                          !.p_3phsum_kW = JsString("0.25 kW")] }

PowerPayloads == UNION {[1..n -> DeviceRecords] : n \in 0..MaxDevices}

PowerFailures == {PowerFailure("error"), PowerFailure("http"), PowerFailure("malformed")}

PowerResponses ==
    {PowerResponse("devices", devices) : devices \in PowerPayloads}
    \cup { \* two inverters that match the two panels of PowerLayouts
           PowerResponse("array", <<Inverter("A1", JsString("2.5")),
                                    Inverter("B2", JsNumber(250))>>),
           \* the same serial twice, the larger reading first
           PowerResponse("DeviceList", <<Inverter("A1", JsNumber(3000)),
                                         Inverter("A1", JsNumber(1000))>>),
           \* an inverter at night next to a meter
           PowerResponse("Devices",
                         <<Inverter("A1", JsString("-0.002")),
                           [EmptyDevice EXCEPT !.DEVICE_TYPE = Num("Power Meter"),
                                               !.SERIAL = Num("M1"),
                                               !.p_3phsum_kw = JsNumber(4000)]>>),
           PowerResponse("other", <<>>), PowerResponse("null", <<>>) }
    \cup PowerFailures

\* the layout of the readings specification: two panels that carry serials
PowerLayouts ==
    { Response("result.panels",
               <<[ApiRecord(-100, -50, 90) EXCEPT !.inverterSerialNumber = Num("A1")],
                 [ApiRecord(100, 50, 0) EXCEPT !.serialNumber = Num("b2")]>>) }

\* what the refresh interval input can hold
IntervalTexts == {"1", "0"}

----------------------------------------------------------------------------
(* State machine *)

NoEvent == [type |-> "none", x |-> 0, y |-> 0, hit |-> 0, wasDragging |-> FALSE]
Event(type, x, y, hit) ==
    [type |-> type, x |-> x, y |-> y, hit |-> hit, wasDragging |-> isDragging]

\* no power load has completed yet
NoCycle == [origin |-> "none", response |-> PowerFailure("none"), maxPowerBefore |-> 0]

\* CONFIG.localLayout && Array.isArray(CONFIG.localLayout) && CONFIG.localLayout.length > 0
LocalLayoutEvenIfEmpty == localLayout.type = "array"
UsesLocalLayout == localLayout.type = "array" /\ Len(localLayout.records) > 0

\* the state the constructor leaves, for a CONFIG.localLayout out of configs: init()
\* has run up to the layout fetch, or up to the local branch of loadPanelLayout
InitWith(configs) ==
    /\ localLayout \in configs
    /\ phase = "layout"
    /\ panels = <<>>
    /\ maxPower = 0
    /\ isDragging = FALSE
    /\ dragPanel = 0
    /\ dragOffset = [x |-> 0, y |-> 0]
    /\ editPlacementEnabled = FALSE
    /\ panelsArray = <<>>
    /\ normalized = <<>>
    /\ resolved = [moved |-> FALSE, iterations |-> 0]
    /\ lastEvent = NoEvent
    /\ dragMoves = 0
    /\ powerData = EmptyTable
    /\ inFlight = [init |-> 0, refresh |-> 0]
    /\ refreshInterval = 0
    /\ refreshIntervalMinutes = 5
    /\ timers = {}
    /\ initDone = FALSE
    /\ fetched = [layout |-> ~UsesLocalLayout, power |-> FALSE]
    /\ powerCycle = NoCycle
    /\ canvas = [width |-> 0, height |-> 0]
    /\ rendered = <<>>
    /\ exported = <<>>

Init == InitWith({ArrayConfig(layout) : layout \in LocalLayouts})

\* what loadPanelLayout can receive when the fetch, if any, may answer with one of S
Received(S) == IF UsesLocalLayout THEN {NoResponse} ELSE S

\* this.render()
render ==
    /\ canvas' = CanvasSize(panels')
    /\ rendered' = Render(panels', powerData', maxPower')

\* init() after `await this.loadPanelLayout()`: the call of loadPowerData runs up
\* to its fetch in the same task
StartTimerAfterLayout ==
    /\ inFlight' = [inFlight EXCEPT !.init = 1]
    /\ fetched' = [fetched EXCEPT !.power = TRUE]
    /\ timers' = timers \cup {[id |-> 1, minutes |-> refreshIntervalMinutes]}
    /\ refreshInterval' = 1
    /\ initDone' = TRUE
initAfterLayout ==
    /\ inFlight' = [inFlight EXCEPT !.init = 1]
    /\ fetched' = [fetched EXCEPT !.power = TRUE]
    /\ UNCHANGED <<timers, refreshInterval, initDone>>

\* loadPanelLayout from its call by init() to its render; the fetch, if one is
\* issued, answers with response.  The task that ends the load goes on with init().
loadPanelLayout(response) ==
    /\ phase = "layout"
    /\ LET thrown == ~UsesLocalLayout /\ ~response.ok
           arr == IF UsesLocalLayout THEN localLayout.records
                  ELSE IF thrown THEN <<>>
                  ELSE ExtractPanels(response)
           mapped == IF UsesLocalLayout THEN NormalizeLocal(arr)
                     ELSE IF thrown THEN panels
                     ELSE NormalizeApi(arr)
           built == IF thrown \/ Len(mapped) = 0 THEN createDefaultPanels ELSE mapped
           r == resolveOverlaps(built)
       IN  /\ panelsArray' = arr
           /\ normalized' = mapped
           /\ panels' = r.panels
           /\ resolved' = [moved |-> r.moved, iterations |-> r.iterations]
    /\ maxPower' = DefaultMaxPower(maxPower)
    /\ phase' = "loaded"
    /\ lastEvent' = Event("layout", 0, 0, 0)
    /\ UNCHANGED <<powerData, powerCycle>>
    /\ render
    /\ initAfterLayout
    /\ UNCHANGED <<localLayout, isDragging, dragPanel, dragOffset,
                   editPlacementEnabled, dragMoves, refreshIntervalMinutes, exported>>

\* the listeners are registered before the fetch; with a local layout the panel
\* set is built inside the constructor, before any event can be delivered
ListenersLive == phase # "layout" \/ ~UsesLocalLayout

\* the variables the pointer handlers never touch
refreshVars == <<powerData, inFlight, refreshInterval, refreshIntervalMinutes, timers,
                 initDone, fetched, powerCycle, exported>>

\* the change listener of the edit-placement checkbox
toggleEditPlacement(checked) ==
    /\ ListenersLive
    /\ editPlacementEnabled' = checked
    /\ lastEvent' = Event("edit", 0, 0, 0)
    /\ UNCHANGED <<localLayout, phase, panels, maxPower, isDragging, dragPanel,
                   dragOffset, panelsArray, normalized, resolved, dragMoves>>
    /\ UNCHANGED <<refreshVars, canvas, rendered>>

\* the panel handleMouseDown finds, 0 for none: it returns at once unless edit
\* placement is enabled
GrabbedWhileNotEditing(x, y, target) == HitPanel(panels, x, y, target)
GrabbedPanel(x, y, target) ==
    IF ~editPlacementEnabled THEN 0 ELSE HitPanel(panels, x, y, target)

\* the two assignments of app.js:1293-1294, which precede the one that throws
GrabWithoutPanel(panel) == isDragging' = TRUE /\ dragPanel' = dragPanel
Grab(panel) == isDragging' = TRUE /\ dragPanel' = panel

\* handleMouseDown at the pointer position <<x, y>>.  The x and y of app.js:1296-1297
\* are declared by const inside the block of app.js:1269-1290 and are out of scope at
\* app.js:1295: building the object throws a ReferenceError after isDragging and
\* dragPanel are assigned, so this.dragOffset is never assigned.
handleMouseDown(x, y, target) ==
    /\ ListenersLive
    /\ LET panel == GrabbedPanel(x, y, target)
       IN  /\ IF panel # 0
              THEN Grab(panel)
              ELSE UNCHANGED <<isDragging, dragPanel>>
           /\ lastEvent' = Event("mousedown", x, y, panel)
    /\ UNCHANGED <<localLayout, phase, panels, maxPower, dragOffset,
                   editPlacementEnabled, panelsArray, normalized, resolved, dragMoves>>
    /\ UNCHANGED <<refreshVars, canvas, rendered>>

\* handleMouseUp, the listener of mouseup and of mouseleave
ReleaseKeepsPanel == IF isDragging THEN isDragging' = FALSE /\ dragPanel' = dragPanel
                     ELSE UNCHANGED <<isDragging, dragPanel>>
Release == IF isDragging THEN isDragging' = FALSE /\ dragPanel' = 0
           ELSE UNCHANGED <<isDragging, dragPanel>>

handleMouseUp(type) ==
    /\ ListenersLive
    /\ Release
    /\ lastEvent' = Event(type, 0, 0, 0)
    /\ UNCHANGED <<localLayout, phase, panels, maxPower, dragOffset,
                   editPlacementEnabled, panelsArray, normalized, resolved, dragMoves>>
    /\ UNCHANGED <<refreshVars, canvas, rendered>>

\* the test of app.js:1311: a drag is in progress and edit placement is off
DragNeverSwitchedOff == FALSE
DragWasSwitchedOff == isDragging /\ ~editPlacementEnabled

\* handleMouseMove at the pointer position <<x, y>>
handleMouseMove(x, y) ==
    /\ ListenersLive
    /\ UNCHANGED <<localLayout, phase, maxPower, dragOffset, editPlacementEnabled,
                   panelsArray, normalized, resolved>>
    /\ UNCHANGED refreshVars
    /\ IF DragWasSwitchedOff
       THEN Release /\ UNCHANGED <<panels, dragMoves, canvas, rendered>>
       ELSE IF isDragging /\ dragPanel # 0
       THEN /\ dragMoves < MaxDragMoves
            /\ panels' = DragTo(panels, dragPanel, dragOffset, x, y)
            /\ dragMoves' = dragMoves + 1
            /\ UNCHANGED <<isDragging, dragPanel>>
            /\ render
       ELSE UNCHANGED <<panels, dragMoves, isDragging, dragPanel, canvas, rendered>>
    /\ lastEvent' = Event("mousemove", x, y, 0)

\* the variables the refresh handlers never touch
layoutVars == <<localLayout, phase, panels, panelsArray, normalized, resolved>>
dragVars == <<isDragging, dragPanel, dragOffset, editPlacementEnabled, dragMoves>>

\* the call of loadPowerData up to its fetch, by a listener or a timer
IssuePowerFetch ==
    /\ inFlight.refresh < MaxInFlight
    /\ inFlight' = [inFlight EXCEPT !.refresh = @ + 1]
    /\ fetched' = [fetched EXCEPT !.power = TRUE]

\* the click listener of the Refresh Now button
refreshNow ==
    /\ ListenersLive
    /\ IssuePowerFetch
    /\ lastEvent' = Event("refreshNow", 0, 0, 0)
    /\ UNCHANGED <<layoutVars, dragVars, maxPower, powerData, powerCycle, canvas,
                   rendered, exported, refreshInterval, refreshIntervalMinutes,
                   timers, initDone>>

\* the callback of setInterval for a timer that is still set
tick(timer) ==
    /\ timer \in timers
    /\ IssuePowerFetch
    /\ lastEvent' = Event("tick", 0, 0, 0)
    /\ UNCHANGED <<layoutVars, dragVars, maxPower, powerData, powerCycle, canvas,
                   rendered, exported, refreshInterval, refreshIntervalMinutes,
                   timers, initDone>>

\* startAutoRefresh(): clearInterval on the handle held, then setInterval
SetIntervalOnly ==
    LET kept == timers
        handle == CHOOSE id \in 1..(Cardinality(kept) + 1) : \A t \in kept : t.id # id
    IN  /\ timers' = kept \cup {[id |-> handle, minutes |-> refreshIntervalMinutes']}
        /\ refreshInterval' = handle
startAutoRefresh ==
    LET kept == {t \in timers : t.id # refreshInterval}
        handle == CHOOSE id \in 1..(Cardinality(kept) + 1) : \A t \in kept : t.id # id
    IN  /\ timers' = kept \cup {[id |-> handle, minutes |-> refreshIntervalMinutes']}
        /\ refreshInterval' = handle

\* parseInt on the texts the interval input can hold
parseInt(text) ==
    CASE text = "1" -> JsNumber(1000)
      [] text = "15" -> JsNumber(15000)
      [] text = "0" -> JsNumber(0)
      [] OTHER -> JsNaN

\* the change listener of the refresh interval input
changeRefreshInterval(text) ==
    /\ ListenersLive
    /\ refreshIntervalMinutes' =
          IF JsTruthy(parseInt(text)) THEN parseInt(text).n \div 1000 ELSE 5
    /\ startAutoRefresh
    /\ lastEvent' = Event("interval", 0, 0, 0)
    /\ UNCHANGED <<layoutVars, dragVars, maxPower, powerData, powerCycle, canvas,
                   rendered, exported, inFlight, fetched, initDone>>

\* what the catch block of loadPowerData finds in this.powerData and this.maxPower:
\* an error thrown before app.js:996 leaves both as they were, one thrown at
\* app.js:1000 finds them cleared
Caught(response) ==
    IF response.status = "ok"
    THEN [powerData |-> EmptyTable, maxPower |-> 0]
    ELSE [powerData |-> powerData, maxPower |-> maxPower]

\* loadPowerData assigns this.powerData and this.maxPower only: the panels and the
\* drag session are as the pointer handlers left them
PowerLoadEndsDrag ==
    /\ UNCHANGED <<layoutVars, dragOffset, editPlacementEnabled, dragMoves>>
    /\ isDragging' = FALSE
    /\ dragPanel' = 0
PowerLoadKeepsPlacement == UNCHANGED <<layoutVars, dragVars>>

\* loadPowerData from the answer of its fetch to its render, for the load that
\* init() awaits (origin "init") or one started by a listener or a timer
loadPowerData(origin, response) ==
    /\ inFlight[origin] > 0
    /\ inFlight' = [inFlight EXCEPT ![origin] = @ - 1]
    /\ IF response.status = "ok" /\ response.shape # "null"
       THEN LET read == ReadPowerData(response, maxPower)
            IN  /\ powerData' = read.powerData
                /\ maxPower' = read.maxPower
       ELSE LET caught == Caught(response)
            IN  /\ powerData' = caught.powerData
                /\ maxPower' = DefaultMaxPower(caught.maxPower)
    /\ powerCycle' = [origin |-> origin, response |-> response,
                      maxPowerBefore |-> maxPower]
    /\ lastEvent' = Event("power", 0, 0, 0)
    /\ UNCHANGED <<fetched, exported, refreshIntervalMinutes>>
    /\ PowerLoadKeepsPlacement
    /\ render
    /\ IF origin = "init"
       THEN startAutoRefresh /\ initDone' = TRUE
       ELSE UNCHANGED <<timers, refreshInterval, initDone>>

\* the click listener of the Export Layout button
exportLayout ==
    /\ ListenersLive
    /\ exported' = IF Len(panels) = 0 THEN exported ELSE exportPanelLayout(panels)
    /\ lastEvent' = Event("export", 0, 0, 0)
    /\ UNCHANGED <<layoutVars, dragVars, maxPower, powerData, powerCycle, canvas,
                   rendered, inFlight, fetched, initDone, refreshInterval,
                   refreshIntervalMinutes, timers>>

\* the panels whose SVG element can lie under the pointer, 0 for no element
Targets(x, y) == {0} \cup {t \in 1..Len(panels) : HitTest(panels[t], x, y)}

\* layout load and placement editing, over the layouts of LayoutResponses
Next ==
    \/ \E response \in Received(LayoutResponses) : loadPanelLayout(response)
    \/ \E checked \in BOOLEAN : toggleEditPlacement(checked)
    \/ \E x \in PointerXs, y \in PointerYs : \E target \in Targets(x, y) :
          handleMouseDown(x, y, target)
    \/ \E x \in PointerXs, y \in PointerYs : handleMouseMove(x, y)
    \/ handleMouseUp("mouseup")
    \/ handleMouseUp("mouseleave")

Spec == Init /\ [][Next]_vars

----------------------------------------------------------------------------
(* The normalizer alone, over every payload of up to MaxRecords raw records *)

\* <<planeRotation, width, height>> as a record may carry them
RotationsAndSizes ==
    { <<undefined, undefined, undefined>>, <<Num(90), undefined, undefined>>,
      <<Num(180), undefined, undefined>>, <<Num(270), undefined, undefined>>,
      <<Num(45), undefined, undefined>>, <<Num(-90), undefined, undefined>>,
      <<Num(450), undefined, undefined>>, <<Num(0), Num(Px(100)), Num(Px(60))>>,
      <<Num(630), Num(Px(100)), Num(Px(60))>>, <<Num(135), Num(Px(100)), Num(Px(60))>>,
      <<Num(90), Num(Px(200)), Num(Px(60))>> }

NormalizerRecords ==
    \* records that differ in the coordinates they carry under the API names
    { EmptyRecord,
      [EmptyRecord EXCEPT !.xCoordinate = Num(0), !.yCoordinate = Num(0)],
      ApiRecord(-100, -50, 0), ApiRecord(30, 30, 0), ApiRecord(30, -50, 0),
      ApiRecord(-100, 30, 0) }
    \* records that carry coordinates under the short names
    \cup { [EmptyRecord EXCEPT !.x = Num(Px(70)), !.y = Num(Px(-20))],
           [EmptyRecord EXCEPT !.xCoordinate = Num(0), !.x = Num(Px(70)),
                               !.yCoordinate = Num(0), !.y = Num(Px(40))] }
    \* records that differ in rotation and nominal size
    \cup { [ApiRecord(400, 300, 0) EXCEPT !.planeRotation = rs[1], !.width = rs[2],
                                         !.height = rs[3]] : rs \in RotationsAndSizes }

\* three records on one spot whose sizes differ, so that the order in which the
\* resolver separates the three pairs shows in the result
OverlappingTriple ==
    << [ApiRecord(400, 300, 0) EXCEPT !.planeRotation = Num(90),
                                      !.width = Num(Px(200)), !.height = Num(Px(60))],
       ApiRecord(400, 300, 0),
       [ApiRecord(400, 300, 0) EXCEPT !.width = Num(Px(100)), !.height = Num(Px(60))] >>

NormalizerPayloads ==
    UNION {[1..n -> NormalizerRecords] : n \in 0..MaxRecords} \cup {OverlappingTriple}

NormalizerResponses ==
    {Response("result.panels", records) : records \in NormalizerPayloads}
    \cup {FailedResponse, Response("other", <<>>)}

NextNormalize == \E response \in Received(NormalizerResponses) : loadPanelLayout(response)

SpecNormalize == InitWith(NormalizerConfigs) /\ [][NextNormalize]_vars

----------------------------------------------------------------------------
(* The readings alone: startup and refreshes over every payload of up to
   MaxDevices devices *)

Origins == {"init", "refresh"}

NextPower ==
    \/ \E response \in Received(PowerLayouts) : loadPanelLayout(response)
    \/ refreshNow
    \/ \E origin \in Origins, response \in PowerResponses :
          loadPowerData(origin, response)

SpecPower == InitWith({NotArrayConfig("undefined")}) /\ [][NextPower]_vars

----------------------------------------------------------------------------
(* The whole application: every listener, timer and load, over few inputs *)

AppConfigs == {NotArrayConfig("null")}

AppLayouts ==
    { Response("result.panels",
               <<[ApiRecord(20, 10, 0) EXCEPT !.inverterSerialNumber = Num("A1")],
                 [ApiRecord(150, 10, 0) EXCEPT !.serialNumber = Num("b2")]>>) }

AppPowerResponses ==
    { PowerResponse("devices", <<Inverter("A1", JsString("2.5"))>>),
      PowerFailure("http") }

AppPointers == {<<Px(160), Px(100)>>, <<Px(10), Px(50)>>}

NextApp ==
    \/ \E response \in Received(AppLayouts) : loadPanelLayout(response)
    \/ \E checked \in BOOLEAN : toggleEditPlacement(checked)
    \/ \E at \in AppPointers : \E target \in Targets(at[1], at[2]) :
          handleMouseDown(at[1], at[2], target)
    \/ \E at \in AppPointers : handleMouseMove(at[1], at[2])
    \/ handleMouseUp("mouseup")
    \/ refreshNow
    \/ \E timer \in timers : tick(timer)
    \/ \E text \in IntervalTexts : changeRefreshInterval(text)
    \/ \E origin \in Origins, response \in AppPowerResponses :
          loadPowerData(origin, response)
    \/ exportLayout

SpecApp == InitWith(AppConfigs) /\ [][NextApp]_vars

----------------------------------------------------------------------------
(* Properties *)

\* two rectangles share no area: one lies left of, right of, above or below the other
Apart(p, q) ==
    \/ p.x + p.width <= q.x
    \/ q.x + q.width <= p.x
    \/ p.y + p.height <= q.y
    \/ q.y + q.height <= p.y

PairwiseApart(ps) ==
    \A i \in 1..Len(ps), j \in 1..Len(ps) : i # j => Apart(ps[i], ps[j])

\* the layout load has run and no drag has moved a panel since
JustLoaded == phase = "loaded" /\ dragMoves = 0
\* the layout load normalized the records of an API payload
FromApi == phase = "loaded" /\ ~UsesLocalLayout /\ Len(normalized) > 0

\* C1: when resolveOverlaps returns with moved false (its last pass displaced
\* nothing, so it did not stop at the pass cap), no two distinct panels of the
\* panel set overlap.
C1_ResolvedPanelsApart ==
    (JustLoaded /\ ~resolved.moved) => PairwiseApart(panels)

\* C1 witness: the resolver displaced panels of the normalized set for several
\* passes and then stopped on a pass without displacement.
C1_Witness ==
    /\ JustLoaded
    /\ ~resolved.moved
    /\ resolved.iterations >= 3
    /\ resolved.iterations < maxIterations
    /\ ~PairwiseApart(normalized)

\* C2 (as claimed): after a layout load every panel has x >= 0 and y >= 0: in the
\* normalized set, after resolveOverlaps, and after every drag pointer-move.
C2_PositionsNonNegative ==
    phase = "loaded" =>
        /\ \A i \in 1..Len(normalized) : normalized[i].x >= 0 /\ normalized[i].y >= 0
        /\ \A i \in 1..Len(panels) : panels[i].x >= 0 /\ panels[i].y >= 0

\* C3 (as claimed): from a panel set in which no two panels overlap, a pointer-move
\* handled while Dragging leaves a panel set in which no two panels overlap.
C3_DragKeepsPanelsApart ==
    [][(/\ phase = "loaded"
        /\ PairwiseApart(panels)
        /\ isDragging
        /\ lastEvent'.type = "mousemove") => PairwiseApart(panels')]_vars

\* C4 (as claimed): a pointer-down that hits a panel while edit placement is enabled
\* makes the session Dragging with dragPanel the hit panel and dragOffset the pointer
\* position minus the top-left corner of that panel.
C4_GrabCapturesOffset ==
    [][(lastEvent'.type = "mousedown" /\ editPlacementEnabled /\ lastEvent'.hit # 0) =>
          /\ isDragging'
          /\ dragPanel' = lastEvent'.hit
          /\ dragOffset' = [x |-> lastEvent'.x - panels[lastEvent'.hit].x,
                            y |-> lastEvent'.y - panels[lastEvent'.hit].y]]_vars

\* no panel's bounding box holds the point
NothingAt(x, y) == \A k \in 1..Len(panels) : ~HitTest(panels[k], x, y)

C6_ReleaseEndsDrag ==
    [][lastEvent'.type \in {"mouseup", "mouseleave"} =>
          /\ ~isDragging'
          /\ dragPanel' = 0
          /\ UNCHANGED <<panels, dragOffset, editPlacementEnabled, maxPower, phase>>
          /\ ~isDragging => UNCHANGED <<isDragging, dragPanel>>]_vars

\* C6 witness: a pointer-leave ended a drag that had moved a panel.
C6_Witness ==
    /\ lastEvent.type = "mouseleave"
    /\ lastEvent.wasDragging
    /\ dragMoves > 0
    /\ ~isDragging /\ dragPanel = 0

\* the k-th (from 1) panel of a 4-column grid of pitch 140 from (50, 50), portrait
\* 80 x 120 at even indexes and landscape 120 x 80 at odd ones
GridPanelAt(p, k) ==
    /\ p.x = Px(50 + ((k - 1) % 4) * 140)
    /\ p.y = Px(50 + ((k - 1) \div 4) * 140)
    /\ p.planeRotation = (IF (k - 1) % 2 = 0 THEN 0 ELSE 90)
    /\ p.width = (IF (k - 1) % 2 = 0 THEN Px(80) ELSE Px(120))
    /\ p.height = (IF (k - 1) % 2 = 0 THEN Px(120) ELSE Px(80))

\* C7: when the fetch fails, the payload has no recognized shape or the normalizer
\* yields no panel, the panel set after loadPanelLayout is the 12 defaults: a grid
\* of 4 columns and 3 rows, rotations alternating 0/90, pairwise apart, and
\* resolveOverlaps displaced none of them.
C7_DefaultsOnEmptyLayout ==
    (JustLoaded /\ Len(normalized) = 0) =>
        /\ Len(panels) = 12
        /\ \A k \in 1..Len(panels) : GridPanelAt(panels[k], k)
        /\ PairwiseApart(panels)
        /\ resolved = [moved |-> FALSE, iterations |-> 1]

\* C7 witness: a layout load that normalized no panel has ended with 12 panels.
C7_Witness ==
    JustLoaded /\ Len(normalized) = 0 /\ Len(panels) = 12 /\ lastEvent.type = "layout"

\* the explicit value of an optional field, d when it is missing or 0
Supplied(f, d) == IF f = undefined \/ f[1] = 0 THEN d ELSE f[1]
\* the raw y of a record: yCoordinate, else y, else 0
ClaimedRawY(r) == Supplied(r.yCoordinate, Supplied(r.y, 0))
\* the least raw y of the payload handed to the normalizer
ClaimedMinY ==
    CHOOSE m \in {ClaimedRawY(panelsArray[i]) : i \in 1..Len(panelsArray)} :
        \A i \in 1..Len(panelsArray) : m <= ClaimedRawY(panelsArray[i])
ClaimedYOffset == IF ClaimedMinY < 0 THEN -ClaimedMinY + Px(50) ELSE Px(50)

\* C8: the API normalizer adds yOffset = |minY| + 50 when the least raw y is
\* negative and 50 otherwise, and every normalized panel has y >= 50.
C8_YOffsetPadsNegativeY ==
    FromApi =>
        \A i \in 1..Len(normalized) :
            /\ normalized[i].y >= Px(50)
            /\ ClaimedRawY(panelsArray[i]) # 0 =>
                   normalized[i].y = ClaimedRawY(panelsArray[i]) + ClaimedYOffset

\* C8 witness: a record with yCoordinate -50, the least of its payload, was
\* normalized to y = 50.
C8_Witness ==
    /\ FromApi
    /\ \E i \in 1..Len(normalized) :
          /\ panelsArray[i].yCoordinate = Num(Px(-50))
          /\ ClaimedYOffset = Px(100)
          /\ normalized[i].y = Px(50)

\* the coordinate a record supplies on an axis under either name, undefined for none
Explicit(long, short) == IF long # undefined THEN long ELSE short

\* C9 (as claimed): a record that supplies a coordinate gets that x, and that y plus
\* yOffset; only a record that supplies none on an axis gets the grid fallback.
C9_ExplicitCoordinatesKept ==
    FromApi =>
        \A i \in 1..Len(normalized) :
            LET r == panelsArray[i]
                ex == Explicit(r.xCoordinate, r.x)
                ey == Explicit(r.yCoordinate, r.y)
            IN  /\ ex # undefined => normalized[i].x = ex[1]
                /\ ey # undefined => normalized[i].y = ey[1] + YOffset(panelsArray)

\* C10: the stored (width, height) of a normalized API panel is the base pair at
\* rotation 0 or 180, the swapped base pair at 90 or 270, and the larger base
\* dimension twice at any other rotation, the base defaulting to 80 x 120.
C10_SizeFollowsRotation ==
    FromApi =>
        \A i \in 1..Len(normalized) :
            LET p == normalized[i]
                baseWidth == Supplied(panelsArray[i].width, Px(80))
                baseHeight == Supplied(panelsArray[i].height, Px(120))
                larger == IF baseWidth > baseHeight THEN baseWidth ELSE baseHeight
            IN  /\ p.planeRotation \in {0, 180} =>
                       p.width = baseWidth /\ p.height = baseHeight
                /\ p.planeRotation \in {90, 270} =>
                       p.width = baseHeight /\ p.height = baseWidth
                /\ p.planeRotation \notin {0, 90, 180, 270} =>
                       p.width = larger /\ p.height = larger

\* C10 witness: a payload with a default-size panel at rotation 270 stored as
\* 120 x 80 next to one at rotation 180 stored as 80 x 120.
C10_Witness ==
    /\ FromApi
    /\ \E i, j \in 1..Len(normalized) :
          /\ normalized[i].planeRotation = 270
          /\ normalized[i].width = Px(120) /\ normalized[i].height = Px(80)
          /\ normalized[j].planeRotation = 180
          /\ normalized[j].width = Px(80) /\ normalized[j].height = Px(120)

\* C11 (as claimed): on both load paths the stored planeRotation of every
\* normalized panel lies in [0, 360), whatever integer the raw record carries.
C11_RotationInRange ==
    phase = "loaded" =>
        \A i \in 1..Len(normalized) : normalized[i].planeRotation \in 0..359

\* the panel set a later session builds from an export pasted into
\* CONFIG.localLayout: the local branch of loadPanelLayout, then resolveOverlaps
ReloadExport(layout) == resolveOverlaps(NormalizeLocal(layout)).panels

\* the fields the round trip is claimed to keep
Canonical(p) ==
    <<p.id, p.x, p.y, p.width, p.height, p.planeRotation>>

\* C12 (as claimed): exporting the panel set reached by a layout load and any
\* sequence of drag moves, and loading that export as CONFIG.localLayout, yields
\* panels with the same id, x, y, width, height and planeRotation in the same order.
C12_ExportReloadRoundTrip ==
    phase = "loaded" =>
        LET again == ReloadExport(exportPanelLayout(panels))
        IN  /\ Len(again) = Len(panels)
            /\ \A i \in 1..Len(panels) : Canonical(again[i]) = Canonical(panels[i])

\* C13: getColorForPower gives black for power 0 whatever maxPower is, green 255
\* with red 0 and blue 0 for power = maxPower > 0, and a green channel that does
\* not decrease as power grows from 0 to maxPower.  Stated on what render drew.
C13_ColorScale ==
    \A i \in 1..Len(rendered) :
        /\ rendered[i].power = 0 => rendered[i].fill = [r |-> 0, g |-> 0, b |-> 0]
        /\ (maxPower > 0 /\ rendered[i].power = maxPower) =>
               rendered[i].fill = [r |-> 0, g |-> 255, b |-> 0]
        /\ \A j \in 1..Len(rendered) :
               (/\ 0 <= rendered[i].power
                /\ rendered[i].power <= rendered[j].power
                /\ rendered[j].power <= maxPower) =>
                   rendered[i].fill.g <= rendered[j].fill.g

\* C13 witness: render drew one panel at power = maxPower with green 255 and
\* another at a smaller positive power with a green strictly between 30 and 255.
C13_Witness ==
    \E i, j \in 1..Len(rendered) :
        /\ maxPower > 0
        /\ rendered[i].power = maxPower
        /\ rendered[i].fill.g = 255
        /\ rendered[j].power > 0
        /\ rendered[j].power < maxPower
        /\ rendered[j].fill.g > 30
        /\ rendered[j].fill.g < 255

\* C14 (as claimed): for every nonzero power getPowerValue returns, negative
\* readings included, and maxPower > 0, the green channel getColorForPower
\* produces is an integer in [30, 255].
C14_NonzeroPowerVisible ==
    \A i \in 1..Len(rendered) :
        (rendered[i].power # 0 /\ maxPower > 0) => rendered[i].fill.g \in 30..255

\* the load cycle that completed last ran its try block to the end
CycleSucceeded ==
    powerCycle.response.status = "ok" /\ powerCycle.response.shape # "null"

\* the readings of a payload: its inverters that carry a serial
ReadingsOf(response) ==
    {k \in 1..Len(response.devices) :
        IsInverter(response.devices[k]) /\ SerialOf(response.devices[k]) # undefined}

\* the largest power among the readings of a payload if it is positive, else 400 W
ClaimedMaxPower(response) ==
    LET powers == {getPowerValue(response.devices[k]) : k \in ReadingsOf(response)}
        positive == {w \in powers : w > 0}
    IN  IF positive = {} THEN Watts(400)
        ELSE CHOOSE w \in positive : \A v \in positive : v <= w

\* C15: after a successful loadPowerData, maxPower is the largest power in watts
\* (kilowatt fields times 1000) among the readings of that cycle alone, whatever
\* maxPower was before, and 400 W when the cycle has no reading with positive
\* power; one inverter with p_3phsum_kw 2.5 gives 2500 W.
C15_MaxPowerOfCycle ==
    CycleSucceeded =>
        /\ maxPower = ClaimedMaxPower(powerCycle.response)
        /\ powerCycle.response.devices = <<Inverter("A1", JsString("2.5"))>> =>
               maxPower = 2500 * 1000

\* C15 witness: a cycle with the single reading 2.5 kW completed while maxPower
\* held 3000 W from an earlier cycle, and left maxPower at 2500 W.
C15_Witness ==
    /\ CycleSucceeded
    /\ powerCycle.maxPowerBefore = 3000 * 1000
    /\ powerCycle.response.devices = <<Inverter("A1", JsString("2.5"))>>
    /\ maxPower = 2500 * 1000

\* C16 (as claimed): after a power load that failed (the fetch rejected, the
\* status was not OK, or the body was malformed) the reading table is empty and
\* maxPower is the default 400 W, whatever an earlier refresh stored, and render
\* has drawn every panel.
C16_FailedLoadClearsReadings ==
    powerCycle.response.status \in {"error", "http", "malformed"} =>
        /\ DOMAIN powerData = {}
        /\ maxPower = 400 * 1000
        /\ Len(rendered) = Len(panels)

\* C17 (as claimed): for a panel at rotation 0, 90, 180 or 270 the box render
\* uses for the canvas extent and the box of the coordinate hit-tests are the
\* stored width and height, with no second swap, so the canvas is at least
\* x + width wide and y + height high for every such panel.
C17_RightAngleBoxIsStoredSize ==
    phase = "loaded" =>
        \A i \in 1..Len(panels) :
            panels[i].planeRotation \in {0, 90, 180, 270} =>
                /\ HitBox(panels[i]) = <<panels[i].width, panels[i].height>>
                /\ RenderBox(panels[i]) = <<panels[i].width, panels[i].height>>
                /\ canvas.width >= panels[i].x + panels[i].width
                /\ canvas.height >= panels[i].y + panels[i].height

\* CONFIG.localLayout is an array with at least one record
NonEmptyArray == localLayout.type = "array" /\ localLayout.records # <<>>

\* C18: when CONFIG.localLayout is a non-empty array the layout fetch is never
\* issued and the panel set is built from the local records only; when it is
\* absent, null, not an array or empty, the layout fetch is issued.
C18_LocalLayoutBypassesFetch ==
    /\ NonEmptyArray => ~fetched.layout
    /\ (NonEmptyArray /\ phase = "loaded") =>
           /\ panelsArray = localLayout.records
           /\ Len(normalized) = Len(localLayout.records)
           /\ \A i \in 1..Len(normalized) :
                  /\ normalized[i].id = localLayout.records[i].id[1]
                  /\ normalized[i].x = localLayout.records[i].x[1]
                  /\ normalized[i].y = localLayout.records[i].y[1]
    /\ ~NonEmptyArray => fetched.layout

\* C18 witness: a layout load that ended with two panels of a local layout and
\* without a layout fetch.
C18_Witness ==
    /\ NonEmptyArray
    /\ phase = "loaded"
    /\ ~fetched.layout
    /\ Len(panels) = 2
    /\ panelsArray = localLayout.records

\* C19 (as claimed): no power fetch is issued before the layout load has
\* completed, and init has started the timer only when its power load has
\* completed.
C19_StartupOrdering ==
    /\ phase = "layout" => ~fetched.power
    /\ initDone => (phase = "loaded" /\ inFlight.init = 0 /\ refreshInterval # 0)

\* C19 (amended): init issues its power fetch in the step that completes the
\* layout load and not before; init starts the timer in the step that completes
\* that power load; a timer tick or a click on Refresh Now starts one power load
\* and never a layout load; once built, the panel set is never built again.
C19_InitOrdering ==
    [][/\ inFlight'.init > inFlight.init =>
              (phase = "layout" /\ phase' = "loaded" /\ lastEvent'.type = "layout")
       /\ (initDone' /\ ~initDone) =>
              (/\ phase = "loaded"
               /\ inFlight.init = 1 /\ inFlight'.init = 0
               /\ lastEvent'.type = "power"
               /\ refreshInterval' # 0)
       /\ lastEvent'.type \in {"tick", "refreshNow"} =>
              (/\ inFlight'.refresh = inFlight.refresh + 1
               /\ UNCHANGED <<phase, panels, panelsArray, normalized, resolved>>)
       /\ phase = "loaded" => UNCHANGED <<phase, panelsArray, normalized, resolved>>
      ]_vars

\* C19 witness: init has returned with the timer set, and a tick of the timer
\* has started a power load over the panel set the layout load built.
C19_Witness ==
    /\ initDone
    /\ phase = "loaded"
    /\ refreshInterval # 0
    /\ powerCycle.origin = "init"
    /\ lastEvent.type = "tick"
    /\ inFlight.refresh = 1
    /\ Len(panels) = 2

\* the fields of a panel set that are fixed at normalization, in order
Shape(ps) ==
    [i \in 1..Len(ps) |-> <<ps[i].id, ps[i].width, ps[i].height, ps[i].planeRotation>>]

\* C20: after a layout load nothing changes the id, width, height or
\* planeRotation of a panel, nor the number or the order of the panels:
\* resolveOverlaps keeps them from the normalized set, and every drag, power
\* refresh and export keeps them from step to step; only x and y change.
C20_OnlyPositionsChange ==
    [][/\ (phase' = "loaded" /\ Len(normalized') > 0) =>
              Shape(panels') = Shape(normalized')
       /\ phase = "loaded" => Shape(panels') = Shape(panels)
      ]_vars

\* C20 witness: after the layout load a drag has moved the second panel, a power
\* load has completed and the layout has been exported.
C20_Witness ==
    /\ phase = "loaded"
    /\ dragMoves > 0
    /\ panels[2].x # normalized[2].x
    /\ powerCycle.origin # "none"
    /\ exported # <<>>
    /\ Shape(panels) = Shape(normalized)

\* C21: a power load that completes while a drag is in progress changes the
\* reading table and maxPower only: every panel position, isDragging, dragPanel
\* and dragOffset are unchanged by it, so the drag continues from the same
\* coordinates.
C21_RefreshKeepsDrag ==
    [][(isDragging /\ lastEvent'.type = "power") =>
           UNCHANGED <<panels, isDragging, dragPanel, dragOffset,
                       editPlacementEnabled>>
      ]_vars

\* C21 witness: a load started by a listener or a timer has completed with
\* readings while the second panel was being dragged away from where it was loaded.
C21_Witness ==
    /\ lastEvent.type = "power"
    /\ powerCycle.origin = "refresh"
    /\ DOMAIN powerData # {}
    /\ isDragging
    /\ dragPanel = 2
    /\ dragMoves > 0
    /\ panels[2].x # normalized[2].x

\* the pairs i < j of ps that overlap
OverlappingPairs(ps) ==
    {pair \in (1..Len(ps)) \X (1..Len(ps)) :
        pair[1] < pair[2] /\ panelsOverlap(ps[pair[1]], ps[pair[2]])}
\* the pair the first pass of resolveOverlaps separates first: the least one in
\* index order
FirstOverlap(ps) ==
    CHOOSE pair \in OverlappingPairs(ps) :
        \A other \in OverlappingPairs(ps) :
            \/ pair[1] < other[1]
            \/ pair[1] = other[1] /\ pair[2] <= other[2]
\* the distance between the facing edges of two extents [a, a + m] and [b, b + n],
\* negative when they overlap
GapBetween(a, m, b, n) == Max(b - (a + m), a - (b + n))

\* C22: an overlapping pair visited by resolveOverlaps is separated along the axis
\* with the strictly smaller overlap depth (Y on a tie); when the clamp at 0 does
\* not engage each panel moves (overlap + 10) / 2, the lower-coordinate one toward
\* 0, the pair ends exactly 10 units apart on that axis and the other axis of both
\* panels is unchanged.
C22_PairSeparated ==
    (phase = "loaded" /\ OverlappingPairs(normalized) # {}) =>
        LET pair == FirstOverlap(normalized)
            p == normalized[pair[1]]
            q == normalized[pair[2]]
            after == SeparatePair(normalized, pair[1], pair[2])
            p2 == after[pair[1]]
            q2 == after[pair[2]]
            overlapX == Min(p.x + p.width - q.x, q.x + q.width - p.x)
            overlapY == Min(p.y + p.height - q.y, q.y + q.height - p.y)
            moveX == Half(overlapX + ResolvePadding)
            moveY == Half(overlapY + ResolvePadding)
        IN  IF overlapX < overlapY
            THEN /\ p2.y = p.y /\ q2.y = q.y
                 /\ Min(p.x, q.x) - moveX >= 0 =>
                        /\ Abs(p2.x - p.x) = moveX /\ Abs(q2.x - q.x) = moveX
                        /\ GapBetween(p2.x, p2.width, q2.x, q2.width) = ResolvePadding
            ELSE /\ p2.x = p.x /\ q2.x = q.x
                 /\ Min(p.y, q.y) - moveY >= 0 =>
                        /\ Abs(p2.y - p.y) = moveY /\ Abs(q2.y - q.y) = moveY
                        /\ GapBetween(p2.y, p2.height, q2.y, q2.height) = ResolvePadding

\* the pairs i < j of 1..n, and the k-th of them in index order
IndexPairs(n) == {pair \in (1..n) \X (1..n) : pair[1] < pair[2]}
Precedes(a, b) == a[1] < b[1] \/ (a[1] = b[1] /\ a[2] < b[2])
PairAt(n, k) ==
    CHOOSE pair \in IndexPairs(n) :
        Cardinality({other \in IndexPairs(n) : Precedes(other, pair)}) = k - 1

RECURSIVE ClaimedPass(_, _)
\* a pass as claimed: the pairs from the k-th on, each separated if it overlaps
\* when its turn comes
ClaimedPass(ps, k) ==
    IF k > Cardinality(IndexPairs(Len(ps))) THEN ps
    ELSE LET pair == PairAt(Len(ps), k)
         IN  ClaimedPass(IF panelsOverlap(ps[pair[1]], ps[pair[2]])
                         THEN SeparatePair(ps, pair[1], pair[2]) ELSE ps,
                         k + 1)

RECURSIVE ClaimedPasses(_, _)
\* the run as claimed: passes until one displaces nothing or the cap is reached
ClaimedPasses(ps, passes) ==
    IF passes = maxIterations THEN [panels |-> ps, passes |-> passes]
    ELSE LET next == ClaimedPass(ps, 1)
         IN  IF next = ps THEN [panels |-> ps, passes |-> passes + 1]
             ELSE ClaimedPasses(next, passes + 1)

\* the panel set the layout load hands to resolveOverlaps: the normalized set, or
\* the default grid when there is none
ResolverInput == IF Len(normalized) = 0 THEN createDefaultPanels ELSE normalized

\* C23: resolveOverlaps terminates on every panel set after at most 100 passes;
\* a pass visits the pairs (i, j), i < j, in index order, and the run stops at the
\* first pass that displaces nothing.
C23_ResolverTerminates ==
    JustLoaded =>
        /\ resolved.iterations >= 1
        /\ resolved.iterations <= maxIterations
        /\ resolved.iterations = ClaimedPasses(ResolverInput, 0).passes
        /\ panels = ClaimedPasses(ResolverInput, 0).panels
        /\ resolved.iterations < maxIterations => ~resolved.moved

\* C23 witness: three panels loaded on one spot, separated by passes over the
\* three pairs until a pass displaced nothing.
C23_Witness ==
    /\ JustLoaded
    /\ Len(normalized) = 3
    /\ Cardinality(OverlappingPairs(normalized)) = 3
    /\ resolved.iterations >= 2
    /\ panels # normalized

\* the candidate extent [a, a + m] is nearer the low side of the extent [b, b + n]:
\* leaving on that side is the shorter way out (the low side on a tie of the two
\* ways when the candidate starts below)
NearerLowSide(a, m, b, n) ==
    \/ a + m - b < b + n - a
    \/ a + m - b = b + n - a /\ a < b

\* the candidate <<x, y>> of the dragged panel d after the correction against P as
\* claimed: along the axis of the smaller overlap (Y on a tie), to the nearer side
\* of P, 5 units from it
ClaimedPushOut(d, P, x, y) ==
    LET overlapX == Min(x + d.width - P.x, P.x + P.width - x)
        overlapY == Min(y + d.height - P.y, P.y + P.height - y)
    IN  IF overlapX < overlapY
        THEN IF NearerLowSide(x, d.width, P.x, P.width)
             THEN <<P.x - DragPadding - d.width, y>>
             ELSE <<P.x + P.width + DragPadding, y>>
        ELSE IF NearerLowSide(y, d.height, P.y, P.height)
             THEN <<x, P.y - DragPadding - d.height>>
             ELSE <<x, P.y + P.height + DragPadding>>

RECURSIVE ClaimedCandidate(_, _, _, _, _)
\* the other panels from the k-th on in sequence order, each checked once
ClaimedCandidate(ps, drag, k, x, y) ==
    IF k > Len(ps) THEN <<x, y>>
    ELSE IF k = drag \/ Apart([ps[drag] EXCEPT !.x = x, !.y = y], ps[k])
         THEN ClaimedCandidate(ps, drag, k + 1, x, y)
         ELSE LET c == ClaimedPushOut(ps[drag], ps[k], x, y)
              IN  ClaimedCandidate(ps, drag, k + 1, c[1], c[2])

\* a pointer-move delivered while a panel is dragged in edit mode
DragMove ==
    /\ lastEvent'.type = "mousemove"
    /\ isDragging /\ editPlacementEnabled /\ dragPanel # 0

\* C24: on a pointer-move while dragging, the candidate (pointer minus dragOffset,
\* clamped to >= 0) is checked against every other panel in sequence order; for
\* each panel P it overlaps it is moved along the smaller-overlap axis (Y on ties)
\* to the side of P it is nearer, 5 units from P, with no re-check against panels
\* visited earlier; the stored position is the final candidate clamped to >= 0.
C24_DragPushOut ==
    [][DragMove =>
           LET c == ClaimedCandidate(panels, dragPanel, 1,
                                     Max(0, lastEvent'.x - dragOffset.x),
                                     Max(0, lastEvent'.y - dragOffset.y))
           IN  panels' = [panels EXCEPT ![dragPanel].x = Max(0, c[1]),
                                        ![dragPanel].y = Max(0, c[2])]
      ]_vars

\* a step of one of the pointer listeners of the canvas
PointerStep == lastEvent'.type \in {"mousedown", "mousemove", "mouseup", "mouseleave"}

\* C25: when edit placement was switched off during a drag, the next pointer-move
\* ends the drag (isDragging false, dragPanel released) and moves no panel; and no
\* pointer event changes a panel position while edit placement is off.
C25_SwitchOffEndsDrag ==
    [][/\ (isDragging /\ ~editPlacementEnabled /\ lastEvent'.type = "mousemove") =>
              (~isDragging' /\ dragPanel' = 0 /\ panels' = panels)
       /\ (~editPlacementEnabled /\ PointerStep) => panels' = panels
      ]_vars

\* C25 witness: a drag that had moved its panel was ended by a pointer-move after
\* edit placement was switched off.
C25_Witness ==
    /\ lastEvent.type = "mousemove"
    /\ lastEvent.wasDragging
    /\ ~editPlacementEnabled
    /\ ~isDragging
    /\ dragPanel = 0
    /\ dragMoves > 0

\* C26: in every reachable state, after any sequence of pointer-down, pointer-move,
\* pointer-up, pointer-leave, edit-toggle and refresh events, isDragging is true
\* exactly when dragPanel is non-null, and a non-null dragPanel is a member of the
\* current panel set.
C26_DragSessionConsistent ==
    /\ isDragging <=> dragPanel # 0
    /\ dragPanel # 0 => dragPanel \in 1..Len(panels)

\* C26 witness: a panel is held by a drag that has moved it, and a power load
\* started by a listener or a timer has completed during that drag.
C26_Witness ==
    /\ isDragging
    /\ dragPanel \in 1..Len(panels)
    /\ dragMoves > 0
    /\ lastEvent.type = "power"
    /\ lastEvent.wasDragging
    /\ powerCycle.origin = "refresh"
    /\ powerCycle.response.status # "ok"

\* the positions of the panels other than panel k
OtherPositions(ps, k) ==
    [i \in (1..Len(ps)) \ {k} |-> <<ps[i].x, ps[i].y>>]

\* C27: a pointer-move changes the position of at most one panel: while dragging
\* only the x and y of dragPanel can change and every other panel keeps its
\* position; while idle a pointer-move changes no panel position at all.
C27_MoveChangesOnePanel ==
    [][lastEvent'.type = "mousemove" =>
           /\ Len(panels') = Len(panels)
           /\ OtherPositions(panels', dragPanel) = OtherPositions(panels, dragPanel)
           /\ ~isDragging => panels' = panels
      ]_vars

\* C27 witness: a pointer-move has stored a new position for the dragged panel of
\* a set of three.
C27_Witness ==
    /\ lastEvent.type = "mousemove"
    /\ lastEvent.wasDragging
    /\ isDragging
    /\ Len(panels) = 3
    /\ dragMoves > 0
    /\ <<panels[dragPanel].x, panels[dragPanel].y>>
           # <<normalized[dragPanel].x, normalized[dragPanel].y>>

\* C28: at most one auto-refresh timer is set at any time, under every
\* interleaving of init's call of startAutoRefresh with change events of the
\* interval input, a change before init has finished included: every call of
\* startAutoRefresh clears the timer set before.
C28_OneTimer ==
    /\ Cardinality(timers) <= 1
    /\ \A t \in timers : t.id = refreshInterval

\* C28 witness: init has just started its timer after a change of the interval
\* input had already started one: the timer runs at the interval the input gave.
C28_Witness ==
    /\ lastEvent.type = "power"
    /\ powerCycle.origin = "init"
    /\ initDone
    /\ Cardinality(timers) = 1
    /\ \E t \in timers : t.minutes = 1 /\ t.id = refreshInterval

\* every entry of the table is a reading of the response under its serial or the
\* lower-case serial, and every reading of the response has its entry
TableOf(table, response) ==
    /\ \A key \in DOMAIN table :
          \E k \in ReadingsOf(response) :
              /\ table[key] = response.devices[k]
              /\ key \in {SerialOf(response.devices[k])[1],
                          toLowerCase(SerialOf(response.devices[k])[1])}
    /\ \A k \in ReadingsOf(response) :
          SerialOf(response.devices[k])[1] \in DOMAIN table

\* C29: with several power loads in flight, each response is applied in one
\* step: after the step of a load the reading table and maxPower both derive from
\* the response of that load alone (a load that fails before its body is decoded
\* leaves both as the response processed before left them), and no step in
\* between changes them, so no render sees entries of two responses.
C29_ResponseAppliedWhole ==
    [][LET response == powerCycle'.response
       IN  IF lastEvent'.type = "power"
           THEN IF response.status = "ok"
                THEN /\ TableOf(powerData', response)
                     /\ maxPower' = ClaimedMaxPower(response)
                     /\ rendered' = Render(panels, powerData', maxPower')
                ELSE /\ powerData' = powerData
                     /\ maxPower' = IF maxPower = 0 THEN Watts(400) ELSE maxPower
           ELSE /\ powerData' = powerData
                /\ maxPower' = maxPower \/ (maxPower = 0 /\ maxPower' = Watts(400))
      ]_vars

\* C29 witness: a load started by the refresh button has been applied while the
\* load of init was still in flight; the table holds its reading alone, not the
\* reading an earlier load had stored.
C29_Witness ==
    /\ lastEvent.type = "power"
    /\ powerCycle.origin = "refresh"
    /\ inFlight.init > 0
    /\ powerCycle.maxPowerBefore = Watts(2500)
    /\ maxPower = Watts(250)
    /\ DOMAIN powerData = {"b2"}

\* render has been called: every call follows a layout load or a power load
RenderWasCalled == phase = "loaded" \/ powerCycle # NoCycle

\* C30: maxPower > 0 at every call of render: after the layout load, after every
\* power load (a failed one, one without readings and one with only non-positive
\* readings included) and after every drag move, so render never takes the
\* maxPower === 0 branch of getColorForPower.
C30_MaxPowerPositiveAtRender ==
    /\ RenderWasCalled => maxPower > 0
    /\ lastEvent.type \in {"layout", "power"} => maxPower > 0
    /\ dragMoves > 0 => maxPower > 0

\* C30 witness: a load whose only reading is negative has completed after one
\* that had left maxPower at 2500 W, and render ran with the default 400 W.
C30_Witness ==
    /\ lastEvent.type = "power"
    /\ powerCycle.response.status = "ok"
    /\ powerCycle.response.devices = <<Inverter("B2", JsString("-0.002"))>>
    /\ powerCycle.maxPowerBefore = Watts(2500)
    /\ maxPower = Watts(400)
    /\ Len(rendered) = 2

====
